---- MODULE Spec2Model ----
(***************************************************************************)
(* Query strategies of scikit-activeml:                                    *)
(*   skactiveml/pool/_prob_cover.py   ProbCover.query                      *)
(*   skactiveml/pool/_typi_clust.py   TypiClust.query, _typicality         *)
(*   skactiveml/stream/_random.py     PeriodicSampler.query / update       *)
(*                                                                         *)
(* Arrays are functions with domain 0..n-1, as numpy indexes them.         *)
(* Features are one-dimensional integer coordinates, so the Euclidean      *)
(* distance is an integer and the strict / inclusive radius comparisons    *)
(* of ProbCover both meet their boundary.  A float in (0,1] (alpha, the    *)
(* budget) is a fraction <<numerator, denominator>> and is compared        *)
(* exactly, by cross multiplication.                                       *)
(***************************************************************************)
EXTENDS Integers, Sequences, FiniteSets, TLC

VARIABLES
    \* ---- pool strategies: the strategy instance
    strategy,        \* "ProbCover" or "TypiClust": the class of the instance
    deltas,          \* ProbCover.deltas, a sequence of positive radii
    alpha,           \* ProbCover.alpha, a fraction <<num, den>>
    n_classes,       \* ProbCover.n_classes, cluster count of the pseudo-labels
    k,               \* TypiClust.k
    delta_max_,      \* ProbCover.delta_max_, NoAttr while the attribute is unset
    \* ---- pool strategies: the running call
    X,               \* pool features
    y,               \* y[j] = TRUE iff pool position j has a label
    candidates,      \* [given |-> FALSE] for None, else the index array
    batch_size,
    mapping,         \* TypiClust: candidate position -> pool position
    cluster_labels,  \* TypiClust: fit_predict(X_for_cluster)
    cluster_sizes,   \* TypiClust: counts of np.unique, zeroed when used
    cluster_id,      \* TypiClust: cluster chosen in the last round
    y_cluster,       \* ProbCover: pseudo-labels of the calibration, a local
                     \* of lines 166-175 that is dropped when the loop starts
    is_candidate,    \* ProbCover: eligibility mask
    edges,           \* ProbCover: set of <<i, j>> with an edge i -> j
    utilities,       \* utilities[r][j], NaN where unset
    query_indices,
    b,               \* round counter of the selection loop
    pc,              \* "idle", "loop", "returned", "raised"
    call,            \* ProbCover: "none" before the first query call on the
                     \* instance, "first" from its start on, "later" from
                     \* the start of the second call on
    \* ---- PeriodicSampler
    budget,            \* budget_manager.budget, a fraction <<num, den>>
    seen_instances,
    sampled_instances,
    last_call,         \* the last call on the sampler and its arguments
    last_utilities,    \* utilities computed by the last query
    stream             \* utility of every instance seen by query(simulate=False)

poolvars == <<strategy, deltas, alpha, n_classes, k, delta_max_, X, y,
              candidates, batch_size, mapping, cluster_labels, cluster_sizes,
              cluster_id, y_cluster, is_candidate, edges, utilities,
              query_indices, b, pc, call>>

streamvars == <<budget, seen_instances, sampled_instances, last_call,
                last_utilities, stream>>

vars == <<poolvars, streamvars>>

-----------------------------------------------------------------------------
(* Bounds of the model *)

MaxPool == 3

MaxCoord == 2

MaxDen == 4

MaxStream == 8

MaxBatch == 3

-----------------------------------------------------------------------------
(* numpy arrays *)

Size(a) == Cardinality(DOMAIN a)

Empty == [i \in {} |-> 0]

Append0(a, v) == [i \in 0..Size(a) |-> IF i < Size(a) THEN a[i] ELSE v]

RECURSIVE SumArr(_)
SumArr(a) ==
    IF Size(a) = 0 THEN 0
    ELSE a[Size(a) - 1] + SumArr([i \in 0..(Size(a) - 2) |-> a[i]])

RECURSIVE Concat(_, _)
Concat(a, c) ==
    IF Size(c) = 0 THEN a
    ELSE Append0(Concat(a, [i \in 0..(Size(c) - 2) |-> c[i]]), c[Size(c) - 1])

\* the entries of a set of integers, ascending
RECURSIVE SortedArr(_)
SortedArr(S) ==
    IF S = {} THEN Empty
    ELSE LET m == CHOOSE m \in S : \A x \in S : x <= m
         IN Append0(SortedArr(S \ {m}), m)

Range(a) == {a[i] : i \in DOMAIN a}

\* A utility is a fraction <<num, den>>: NaN is <<0, 0>>, +inf has den = 0.
NaN == <<0, 0>>

Num(n) == <<n, 1>>

IsNaN(u) == u = NaN

Greater(u, v) == u[1] * v[2] > v[1] * u[2]

\* np.argmax of an array of numbers: the first index of the maximum
ArgMax(a) ==
    CHOOSE i \in DOMAIN a :
        /\ \A j \in DOMAIN a : ~Greater(a[j], a[i])
        /\ \A j \in DOMAIN a : j < i => Greater(a[i], a[j])

\* pairwise_distances of one-dimensional features
Dist(p, q) == IF p >= q THEN p - q ELSE q - p

-----------------------------------------------------------------------------
(* PeriodicSampler *)

\* budgets in (0, 1]
Budgets == {f \in (1..MaxDen) \X (1..MaxDen) : f[1] <= f[2]}

\* remaining_budget >= 1, with
\* remaining_budget = seen * budget - sampled
BudgetAllowsStrict(seen, sampled, bud) ==
    seen * bud[1] - sampled * bud[2] > bud[2]

BudgetAllows(seen, sampled, bud) ==
    seen * bud[1] - sampled * bud[2] >= bud[2]

\* The for loop of query over the n rows of X_cand, from row i on.
RECURSIVE QueryLoop(_, _, _, _, _, _, _)
QueryLoop(i, n, seen0, sampled0, bud, instances_to_sample, utils) ==
    IF i = n
    THEN [instances_to_sample |-> instances_to_sample, utilities |-> utils]
    ELSE LET seen == seen0 + i + 1
             sampled == sampled0 + instances_to_sample
         IN IF BudgetAllows(seen, sampled, bud)
            THEN QueryLoop(i + 1, n, seen0, sampled0, bud,
                           instances_to_sample + 1, Append0(utils, 1))
            ELSE QueryLoop(i + 1, n, seen0, sampled0, bud,
                           instances_to_sample, Append0(utils, 0))

QueryDecisions(n, seen0, sampled0, bud) ==
    QueryLoop(0, n, seen0, sampled0, bud, 0, Empty)

\* The counters after query: untouched when simulate is set.
KeepCounters(simulate, old, new) == IF simulate THEN old ELSE new

\* np.sum(sampled) of update
CountEntries(sampled) == Size(sampled)

SumSampled(sampled) == SumArr(sampled)

PS_Init ==
    /\ budget \in Budgets
    /\ seen_instances = 0
    /\ sampled_instances = 0
    /\ last_call = [op |-> "init", n |-> 0, sampled |-> Empty, prev |-> "init"]
    /\ last_utilities = Empty
    /\ stream = Empty

\* query(X_cand, simulate): X_cand has n rows
PS_query(n, simulate) ==
    /\ seen_instances + n <= MaxStream
    /\ LET r == QueryDecisions(n, seen_instances, sampled_instances, budget)
       IN /\ seen_instances' =
                 KeepCounters(simulate, seen_instances, seen_instances + n)
          /\ sampled_instances' =
                 KeepCounters(simulate, sampled_instances,
                              sampled_instances + r.instances_to_sample)
          /\ last_utilities' = r.utilities
          /\ stream' = IF simulate THEN stream ELSE Concat(stream, r.utilities)
    /\ last_call' = [op |-> IF simulate THEN "simulate" ELSE "query",
                     n |-> n, sampled |-> Empty, prev |-> last_call.op]
    /\ UNCHANGED budget

\* update(X_cand, sampled): X_cand has n rows
PS_update(n, sampled) ==
    /\ seen_instances + n <= MaxStream
    /\ seen_instances' = seen_instances + n
    /\ sampled_instances' = sampled_instances + SumSampled(sampled)
    /\ last_call' = [op |-> "update", n |-> n, sampled |-> sampled,
                     prev |-> last_call.op]
    /\ UNCHANGED <<budget, last_utilities, stream>>

PS_Query ==
    /\ \E n \in 1..MaxBatch : PS_query(n, FALSE)
    /\ UNCHANGED poolvars

PS_QuerySimulate ==
    /\ \E n \in 1..MaxBatch : PS_query(n, TRUE)
    /\ UNCHANGED poolvars

PS_Update ==
    /\ \E n \in 1..MaxBatch : \E sampled \in [0..(n - 1) -> {0, 1}] :
           PS_update(n, sampled)
    /\ UNCHANGED poolvars

-----------------------------------------------------------------------------
(* Inputs of the pool strategies *)

\* Pools of up to MaxPool points with coordinates in 0..MaxCoord, listed in
\* ascending order from 0: both strategies read X through the distances
\* only, and the labels, the cluster assignments and the candidates range
\* over all choices.
Pools ==
    {p \in UNION {[0..(n - 1) -> 0..MaxCoord] : n \in 1..MaxPool} :
        /\ p[0] = 0
        /\ \A i \in DOMAIN p : \A j \in DOMAIN p : i < j => p[i] <= p[j]}

\* the pool of the two-clusters scenario: 0, 1, 2, 10, 11, 12
ScenarioX == [i \in 0..5 |-> IF i < 3 THEN i ELSE i + 7]

\* label vectors with at least one missing label
Labelings(Xin) == {l \in [DOMAIN Xin -> BOOLEAN] : \E j \in DOMAIN Xin : ~l[j]}

\* is_unlabeled / labeled_indices of skactiveml.utils
Unlabeled(yin) == {j \in DOMAIN yin : ~yin[j]}

Labeled(yin) == {j \in DOMAIN yin : yin[j]}

None == [given |-> FALSE, idx |-> Empty]

\* candidates: None, or an array of indices of unlabeled pool positions
CandidateChoices(yin) ==
    {None} \cup {[given |-> TRUE, idx |-> SortedArr(S)] :
                    S \in (SUBSET Unlabeled(yin)) \ {{}}}

\* number of candidates, to which _validate_data limits batch_size
NumCandidates(yin, cand) ==
    IF cand.given THEN Size(cand.idx) ELSE Cardinality(Unlabeled(yin))

\* _transform_candidates: the mapping from candidate position to pool position
TransformCandidates(yin, cand) ==
    IF cand.given THEN cand.idx ELSE SortedArr(Unlabeled(yin))

NanMatrix(bs, Xin) == [r \in 0..(bs - 1) |-> [j \in DOMAIN Xin |-> NaN]]

NoAttr == -1

\* query is called between calls, never from within a call
CanCall == pc = "idle"

-----------------------------------------------------------------------------
(* TypiClust *)

\* np.unique(cluster_labels, return_counts=True)[1]
UniqueCounts(labels) ==
    LET ids == SortedArr(Range(labels))
    IN [i \in DOMAIN ids |->
            Cardinality({p \in DOMAIN labels : labels[p] = ids[i]})]

\* sum of the n smallest distances from feature x to the members S
RECURSIVE SumSmallest(_, _, _, _)
SumSmallest(Xin, x, S, n) ==
    IF n = 0 \/ S = {} THEN 0
    ELSE LET j == CHOOSE j \in S :
                      \A j2 \in S : Dist(x, Xin[j]) <= Dist(x, Xin[j2])
         IN Dist(x, Xin[j]) + SumSmallest(Xin, x, S \ {j}, n - 1)

Min(p, q) == IF p <= q THEN p ELSE q

\* _typicality raises: X[uncovered_samples_mapping] out of bounds, or
\* NearestNeighbors fitted on an empty array
TypicalityRaises(Xin, usm) ==
    \/ Size(usm) = 0
    \/ \E i \in DOMAIN usm : usm[i] >= Size(Xin)

\* _typicality(X, uncovered_samples_mapping, k)
Typicality(Xin, usm, kk) ==
    IF Size(usm) = 1
    THEN [j \in DOMAIN Xin |-> IF j = usm[0] THEN Num(1) ELSE Num(0)]
    ELSE LET kc == Min(Size(usm) - 1, kk)
         IN [j \in DOMAIN Xin |->
                IF j \in Range(usm)
                THEN <<kc, SumSmallest(Xin, Xin[j], Range(usm), kc + 1)>>
                ELSE Num(0)]

\* cluster_sizes[covered_cluster] = 0
ZeroCovered(sizes, covered) ==
    [i \in DOMAIN sizes |-> IF i \in covered THEN 0 ELSE sizes[i]]

\* utilities[i, query_indices] = np.nan
KeepSelected(row, q) == row

MaskSelected(row, q) ==
    [j \in DOMAIN row |-> IF j \in Range(q) THEN NaN ELSE row[j]]

\* utilities[:, selected_samples] = np.nan
MaskLabeled(utils, yin) ==
    [r \in DOMAIN utils |->
        [j \in DOMAIN utils[r] |-> IF yin[j] THEN NaN ELSE utils[r][j]]]

\* lines 111-167: validation, clustering, covered clusters
TC_query(Xin, yin, cand, bs, labels) ==
    LET map == TransformCandidates(yin, cand)
        sizes == UniqueCounts(labels)
        covered == {labels[i] : i \in Size(map)..(Size(labels) - 1)}
    IN /\ X' = Xin
       /\ y' = yin
       /\ candidates' = cand
       /\ batch_size' = bs
       /\ mapping' = map
       /\ cluster_labels' = labels
       /\ cluster_id' = 0
       /\ utilities' = NanMatrix(bs, Xin)
       /\ query_indices' = Empty
       /\ b' = 0
       /\ IF \E c \in covered : c >= Size(sizes)
          THEN /\ cluster_sizes' = sizes
               /\ pc' = "raised"
          ELSE /\ cluster_sizes' = ZeroCovered(sizes, covered)
               /\ pc' = "loop"
       /\ UNCHANGED <<strategy, deltas, alpha, n_classes, k, delta_max_,
                      y_cluster, is_candidate, edges, call>>

TC_Query ==
    /\ strategy = "TypiClust"
    /\ CanCall
    /\ \E Xin \in Pools : \E yin \in Labelings(Xin) :
       \E cand \in CandidateChoices(yin) :
       \E bs \in 1..NumCandidates(yin, cand) :
       \E labels \in [0..(NumCandidates(yin, cand)
                          + Cardinality(Labeled(yin)) - 1)
                      -> 0..(Cardinality(Labeled(yin)) + bs - 1)] :
           TC_query(Xin, yin, cand, bs, labels)
    /\ UNCHANGED streamvars

\* one pass of the loop, lines 171-185
TC_Round ==
    /\ strategy = "TypiClust"
    /\ pc = "loop"
    /\ b < batch_size
    /\ LET cid == ArgMax([i \in DOMAIN cluster_sizes |-> Num(cluster_sizes[i])])
           usm == SortedArr({p \in DOMAIN cluster_labels :
                                cluster_labels[p] = cid})
       IN /\ cluster_id' = cid
          /\ IF TypicalityRaises(X, usm)
             THEN /\ pc' = "raised"
                  /\ UNCHANGED <<utilities, query_indices, cluster_sizes, b>>
             ELSE LET typicality == Typicality(X, usm, k)
                      written == [j \in DOMAIN X |->
                                    IF j \in Range(mapping)
                                    THEN typicality[CHOOSE c \in DOMAIN mapping :
                                                        mapping[c] = j]
                                    ELSE utilities[b][j]]
                      row == MaskSelected(written, query_indices)
                      idx == ArgMax(typicality)
                  IN IF idx >= Size(mapping)
                     THEN /\ pc' = "raised"
                          /\ UNCHANGED <<utilities, query_indices,
                                         cluster_sizes, b>>
                     ELSE /\ utilities' = [utilities EXCEPT ![b] = row]
                          /\ query_indices' =
                                 Append0(query_indices, mapping[idx])
                          /\ cluster_sizes' = [cluster_sizes EXCEPT ![cid] = 0]
                          /\ b' = b + 1
                          /\ pc' = "loop"
    /\ UNCHANGED <<strategy, deltas, alpha, n_classes, k, delta_max_, X, y,
                   candidates, batch_size, mapping, cluster_labels, y_cluster,
                   is_candidate, edges, call>>
    /\ UNCHANGED streamvars

\* lines 187-193
TC_Return ==
    /\ strategy = "TypiClust"
    /\ pc = "loop"
    /\ b = batch_size
    /\ utilities' = MaskLabeled(utilities, y)
    /\ pc' = "returned"
    /\ UNCHANGED <<strategy, deltas, alpha, n_classes, k, delta_max_, X, y,
                   candidates, batch_size, mapping, cluster_labels,
                   cluster_sizes, cluster_id, y_cluster, is_candidate, edges,
                   query_indices, b, call>>
    /\ UNCHANGED streamvars

-----------------------------------------------------------------------------
(* ProbCover *)

\* instance configurations <<deltas, alpha>>: one radius (no calibration),
\* ascending radii with alpha in (0, 1), and the scenario's configuration
ProbCoverConfigs ==
    ({<<1>>, <<2>>} \X {<<1, 2>>})
    \cup ({<<1, 2, 3>>, <<2, 3>>} \X {<<1, 4>>, <<1, 2>>, <<3, 4>>})
    \cup {<<(<<1, 5, 20>>), <<1, 2>>>>}

\* number of rows of edges * is_impure with an entry set,
\* edges = distances < delta, is_impure = y_cluster[:, None] != y_cluster
ImpureRowsInclusive(Xin, yc, delta) ==
    Cardinality({i \in DOMAIN Xin :
                    \E j \in DOMAIN Xin : /\ Dist(Xin[i], Xin[j]) <= delta
                                          /\ yc[i] # yc[j]})

ImpureRows(Xin, yc, delta) ==
    Cardinality({i \in DOMAIN Xin :
                    \E j \in DOMAIN Xin : /\ Dist(Xin[i], Xin[j]) < delta
                                          /\ yc[i] # yc[j]})

\* purity < alpha, with purity = 1 - (edges * is_impure).any(axis=1).mean()
PurityBelow(Xin, yc, delta, al) ==
    (Size(Xin) - ImpureRows(Xin, yc, delta)) * al[2] < al[1] * Size(Xin)

\* the for loop over deltas, from the i-th radius on; cur is delta_max_
RECURSIVE ScanAll(_, _, _, _, _, _)
ScanAll(i, cur, Xin, yc, ds, al) ==
    IF i > Len(ds) THEN cur
    ELSE ScanAll(i + 1, ds[i], Xin, yc, ds, al)

RECURSIVE Scan(_, _, _, _, _, _)
Scan(i, cur, Xin, yc, ds, al) ==
    IF i > Len(ds) THEN cur
    ELSE IF PurityBelow(Xin, yc, ds[i], al) THEN cur
    ELSE Scan(i + 1, ds[i], Xin, yc, ds, al)

\* lines 163-175: the value of delta_max_ when the graph is built
CalibratedOrLargest(cur, Xin, yc, ds, al) ==
    IF Len(ds) = 1 THEN ds[1]
    ELSE IF cur = NoAttr
    THEN IF Scan(1, cur, Xin, yc, ds, al) = NoAttr THEN ds[Len(ds)]
         ELSE Scan(1, cur, Xin, yc, ds, al)
    ELSE cur

Calibrated(cur, Xin, yc, ds, al) ==
    IF Len(ds) = 1 THEN ds[1]
    ELSE IF cur = NoAttr THEN Scan(1, cur, Xin, yc, ds, al)
    ELSE cur

\* whether lines 166-175 are executed
Calibrates(cur, ds) == Len(ds) # 1 /\ cur = NoAttr

\* edges = distances <= self.delta_max_
Graph(Xin, delta) ==
    {e \in (DOMAIN Xin) \X (DOMAIN Xin) : Dist(Xin[e[1]], Xin[e[2]]) <= delta}

\* is_candidate = is_unlabeled(y): the result of _transform_candidates
\* is dropped
Eligible(yin, cand) == [j \in DOMAIN yin |-> ~yin[j]]

\* is_covered = edges[~is_candidate].any(axis=0)
IsCovered(E, mask) ==
    {j \in DOMAIN mask : \E i \in DOMAIN mask : ~mask[i] /\ <<i, j>> \in E}

\* edges[:, is_covered] = False
KeepAllEdges(E, covered) == E

RemoveIncoming(E, covered) == {e \in E : e[2] \notin covered}

\* utilities[b][is_candidate] = edges[is_candidate].sum(axis=1)
OutDegrees(E, mask) ==
    [j \in DOMAIN mask |->
        IF mask[j]
        THEN Num(Cardinality({e \in E : e[1] = j}))
        ELSE NaN]

\* rand_argmax of skactiveml.utils: any index holding the maximum
RandArgmax(row) ==
    IF \A j \in DOMAIN row : IsNaN(row[j]) THEN {0}
    ELSE {i \in DOMAIN row :
            /\ ~IsNaN(row[i])
            /\ \A j \in DOMAIN row : ~IsNaN(row[j]) => ~Greater(row[j], row[i])}

\* is_candidate[idx] = False
LeaveCandidate(mask, idx) == mask

MarkSelected(mask, idx) == [mask EXCEPT ![idx] = FALSE]

\* fit_predict(X) of the calibration: every assignment of the points to
\* n_classes clusters.  The labels are read only through
\* y_cluster[:, None] != y_cluster, so point 0 is given cluster 0.
PseudoLabels(Xin) ==
    {yc \in [DOMAIN Xin -> 0..(n_classes - 1)] : yc[0] = 0}

\* lines 117-179
PC_query(Xin, yin, cand, bs, yc) ==
    LET dm == Calibrated(delta_max_, Xin, yc, deltas, alpha)
    IN /\ X' = Xin
       /\ y' = yin
       /\ candidates' = cand
       /\ batch_size' = bs
       /\ is_candidate' = Eligible(yin, cand)
       /\ y_cluster' = yc
       /\ call' = IF call = "none" THEN "first" ELSE "later"
       /\ delta_max_' = dm
       /\ utilities' = NanMatrix(bs, Xin)
       /\ query_indices' = Empty
       /\ b' = 0
       /\ IF dm = NoAttr
          THEN /\ edges' = {}
               /\ pc' = "raised"
          ELSE /\ edges' = Graph(Xin, dm)
               /\ pc' = "loop"
       /\ UNCHANGED <<strategy, deltas, alpha, n_classes, k, mapping,
                      cluster_labels, cluster_sizes, cluster_id>>

PC_Query ==
    /\ strategy = "ProbCover"
    /\ CanCall
    /\ \E Xin \in Pools : \E yin \in Labelings(Xin) :
       \E cand \in CandidateChoices(yin) :
       \E bs \in 1..NumCandidates(yin, cand) :
       \E yc \in IF Calibrates(delta_max_, deltas)
                 THEN PseudoLabels(Xin)
                 ELSE {Empty} :
           PC_query(Xin, yin, cand, bs, yc)
    /\ UNCHANGED streamvars

\* the scenario: six unlabeled points in two groups, batch_size = 2
PC_QueryScenario ==
    /\ strategy = "ProbCover"
    /\ CanCall
    /\ \E yc \in IF Calibrates(delta_max_, deltas)
                 THEN PseudoLabels(ScenarioX)
                 ELSE {Empty} :
           PC_query(ScenarioX, [j \in DOMAIN ScenarioX |-> FALSE], None, 2, yc)
    /\ UNCHANGED streamvars

\* one pass of the loop, lines 181-188
PC_Round ==
    /\ strategy = "ProbCover"
    /\ pc = "loop"
    /\ b < batch_size
    /\ LET thinned == RemoveIncoming(edges, IsCovered(edges, is_candidate))
           row == OutDegrees(thinned, is_candidate)
       IN /\ edges' = thinned
          /\ utilities' = [utilities EXCEPT ![b] = row]
          /\ \E idx \in RandArgmax(row) :
                /\ is_candidate' = MarkSelected(is_candidate, idx)
                /\ query_indices' = Append0(query_indices, idx)
    /\ b' = b + 1
    /\ y_cluster' = Empty
    /\ UNCHANGED <<strategy, deltas, alpha, n_classes, k, delta_max_, X, y,
                   candidates, batch_size, mapping, cluster_labels,
                   cluster_sizes, cluster_id, pc, call>>
    /\ UNCHANGED streamvars

\* lines 190-193
PC_Return ==
    /\ strategy = "ProbCover"
    /\ pc = "loop"
    /\ b = batch_size
    /\ pc' = "returned"
    /\ UNCHANGED <<strategy, deltas, alpha, n_classes, k, delta_max_, X, y,
                   candidates, batch_size, mapping, cluster_labels,
                   cluster_sizes, cluster_id, y_cluster, is_candidate, edges,
                   utilities, query_indices, b, call>>
    /\ UNCHANGED streamvars

\* The call is over (returned or raised): its arrays are dropped, the
\* instance keeps its attributes.
EndCall ==
    /\ pc \in {"returned", "raised"}
    /\ pc' = "idle"
    /\ X' = Empty
    /\ y' = Empty
    /\ candidates' = None
    /\ batch_size' = 0
    /\ mapping' = Empty
    /\ cluster_labels' = Empty
    /\ cluster_sizes' = Empty
    /\ cluster_id' = 0
    /\ y_cluster' = Empty
    /\ is_candidate' = Empty
    /\ edges' = {}
    /\ utilities' = Empty
    /\ query_indices' = Empty
    /\ b' = 0
    /\ UNCHANGED <<strategy, deltas, alpha, n_classes, k, delta_max_, call>>
    /\ UNCHANGED streamvars

-----------------------------------------------------------------------------
(* Specifications *)

\* a constructed pool strategy, no call made yet
PoolInit ==
    /\ strategy \in {"ProbCover", "TypiClust"}
    /\ IF strategy = "ProbCover"
       THEN /\ \E cfg \in ProbCoverConfigs : /\ deltas = cfg[1]
                                              /\ alpha = cfg[2]
            /\ k = 5
       ELSE /\ deltas = <<1>>
            /\ alpha = <<1, 2>>
            /\ k \in {1, 5}
    /\ n_classes = 2
    /\ delta_max_ = NoAttr
    /\ X = Empty
    /\ y = Empty
    /\ candidates = None
    /\ batch_size = 0
    /\ mapping = Empty
    /\ cluster_labels = Empty
    /\ cluster_sizes = Empty
    /\ cluster_id = 0
    /\ y_cluster = Empty
    /\ is_candidate = Empty
    /\ edges = {}
    /\ utilities = Empty
    /\ query_indices = Empty
    /\ b = 0
    /\ pc = "idle"
    /\ call = "none"

\* no pool strategy in use
PoolUnused ==
    /\ strategy = "none"
    /\ deltas = <<1>>
    /\ alpha = <<1, 2>>
    /\ k = 5
    /\ n_classes = 2
    /\ delta_max_ = NoAttr
    /\ X = Empty
    /\ y = Empty
    /\ candidates = None
    /\ batch_size = 0
    /\ mapping = Empty
    /\ cluster_labels = Empty
    /\ cluster_sizes = Empty
    /\ cluster_id = 0
    /\ y_cluster = Empty
    /\ is_candidate = Empty
    /\ edges = {}
    /\ utilities = Empty
    /\ query_indices = Empty
    /\ b = 0
    /\ pc = "idle"
    /\ call = "none"

\* no stream sampler in use
StreamUnused ==
    /\ budget = <<1, 1>>
    /\ seen_instances = 0
    /\ sampled_instances = 0
    /\ last_call = [op |-> "init", n |-> 0, sampled |-> Empty, prev |-> "init"]
    /\ last_utilities = Empty
    /\ stream = Empty

InitPool == PoolInit /\ StreamUnused

NextPool ==
    \/ TC_Query
    \/ TC_Round
    \/ TC_Return
    \/ PC_Query
    \/ PC_QueryScenario
    \/ PC_Round
    \/ PC_Return
    \/ EndCall

SpecPool == InitPool /\ [][NextPool]_vars

InitStream == PS_Init /\ PoolUnused

\* query(simulate=False) only
NextStreamQuery == PS_Query

SpecStreamQuery == InitStream /\ [][NextStreamQuery]_vars

NextStream ==
    \/ PS_Query
    \/ PS_QuerySimulate
    \/ PS_Update

SpecStream == InitStream /\ [][NextStream]_vars

\* Pools of up to MaxPool + 1 points in any order: TypiClust reads X by
\* position, so the order of the points matters to it.
PoolsAnyOrder ==
    UNION {[0..(n - 1) -> 0..MaxCoord] : n \in 2..(MaxPool + 1)}

\* label vectors in which at most pool position 0 has a label
FirstLabeledOrNone(Xin) ==
    {l \in [DOMAIN Xin -> BOOLEAN] : \A j \in DOMAIN Xin : l[j] => j = 0}

\* TypiClust.query with candidates=None on a pool in any order
TC_QueryAnyOrder ==
    /\ strategy = "TypiClust"
    /\ CanCall
    /\ \E Xin \in PoolsAnyOrder : \E yin \in FirstLabeledOrNone(Xin) :
       \E bs \in 1..2 :
       \E labels \in [DOMAIN Xin -> 0..(Cardinality(Labeled(yin)) + bs - 1)] :
           TC_query(Xin, yin, None, bs, labels)
    /\ UNCHANGED streamvars

InitTypiClust == PoolInit /\ strategy = "TypiClust" /\ StreamUnused

NextTypiClust ==
    \/ TC_QueryAnyOrder
    \/ TC_Round
    \/ TC_Return
    \/ EndCall

SpecTypiClust == InitTypiClust /\ [][NextTypiClust]_vars


-----------------------------------------------------------------------------
(* Claims *)

Distinct(q) == \A i \in DOMAIN q : \A j \in DOMAIN q : i # j => q[i] # q[j]

\* pool positions selected in a round earlier than r
SelectedBefore(r) == {query_indices[i] : i \in 0..(r - 1)}

\* X_for_cluster positions of the already-labeled points
LabeledPositions == Size(mapping)..(Size(cluster_labels) - 1)

\* C1: TypiClust.query with candidates=None returns batch_size indices,
\* pairwise distinct, none of them an already-labeled pool position,
\* whatever group assignment the clustering returns.
C1_TypiClustBatch ==
    (strategy = "TypiClust" /\ pc = "returned" /\ ~candidates.given) =>
        /\ Size(query_indices) = batch_size
        /\ Distinct(query_indices)
        /\ \A i \in DOMAIN query_indices : ~y[query_indices[i]]

\* C2: ProbCover.query with candidates=None returns batch_size indices,
\* pairwise distinct, each a pool position whose label was missing when
\* the call started; the same holds of the indices selected so far after
\* every round.
C2_ProbCoverBatch ==
    (strategy = "ProbCover" /\ pc \in {"loop", "returned"}
        /\ ~candidates.given) =>
        /\ Size(query_indices) = b
        /\ pc = "returned" => b = batch_size
        /\ Distinct(query_indices)
        /\ \A i \in DOMAIN query_indices : query_indices[i] \in Unlabeled(y)

C2_Witness ==
    /\ strategy = "ProbCover"
    /\ pc = "returned"
    /\ ~candidates.given
    /\ batch_size = 2
    /\ Size(query_indices) = 2
    /\ Labeled(y) # {}

\* C3: with an explicit subset of pool indices as candidates, every index
\* ProbCover.query returns is unlabeled and a member of the subset.
C3_CandidateSubsetRespected ==
    (strategy = "ProbCover" /\ pc = "returned" /\ candidates.given) =>
        \A i \in DOMAIN query_indices :
            /\ ~y[query_indices[i]]
            /\ query_indices[i] \in Range(candidates.idx)

\* C4: in every round of TypiClust.query that selects an index, the
\* cluster chosen by the remaining-size ranking holds no already-labeled
\* point.
C4_UncoveredClusterChosen ==
    (strategy = "TypiClust" /\ pc \in {"loop", "returned"} /\ b >= 1) =>
        \A p \in LabeledPositions : cluster_labels[p] # cluster_id

C6_CalibratedOnce ==
    [][(strategy = "ProbCover" /\ Len(deltas) >= 2 /\ call # "none") =>
          /\ y_cluster' \in {y_cluster, Empty}
          /\ delta_max_' = delta_max_]_vars

\* alpha values in (0, 1)
Alphas == {f \in (1..MaxDen) \X (1..MaxDen) : f[1] < f[2]}

LessEq(f, g) == f[1] * g[2] <= g[1] * f[2]

\* C7: the radius a fresh instance calibrates is non-increasing in alpha:
\* on the same pool, radius list and pseudo-labels, a calibration with a
\* larger alpha that yields a radius yields one that is no larger, and
\* one with a smaller alpha yields one that is no smaller.
C7_RadiusAntitoneInAlpha ==
    (strategy = "ProbCover" /\ pc = "loop" /\ b = 0 /\ call = "first"
        /\ Len(deltas) >= 2) =>
        \A a2 \in Alphas :
            LET d2 == Calibrated(NoAttr, X, y_cluster, deltas, a2)
            IN d2 # NoAttr =>
                /\ LessEq(alpha, a2) => d2 <= delta_max_
                /\ LessEq(a2, alpha) => delta_max_ <= d2

C7_Witness ==
    /\ strategy = "ProbCover"
    /\ pc = "loop"
    /\ b = 0
    /\ call = "first"
    /\ deltas = <<1, 2, 3>>
    /\ alpha = <<1, 2>>
    /\ delta_max_ = 1
    /\ Calibrated(NoAttr, X, y_cluster, deltas, <<1, 4>>) = 2

\* the first call on a fresh instance, with the scenario's pool, radii,
\* alpha and batch size
ScenarioCall ==
    /\ strategy = "ProbCover"
    /\ call = "first"
    /\ X = ScenarioX
    /\ deltas = <<1, 5, 20>>
    /\ alpha = <<1, 2>>
    /\ batch_size = 2

\* the scenario's pseudo-labels: {0, 1, 2} against {10, 11, 12}
ScenarioLabels ==
    \A i \in DOMAIN X : \A j \in DOMAIN X :
        (y_cluster[i] = y_cluster[j]) <=> ((i < 3) <=> (j < 3))

\* C8: in the scenario the calibration yields delta_max_ = 5 and the
\* call does not raise, and with delta_max_ = 5, for every outcome of
\* the tie-break, the two selected points are one from {0, 1, 2} and one
\* from {10, 11, 12}.
C8_Scenario ==
    /\ (ScenarioCall /\ b = 0 /\ pc # "returned" /\ ScenarioLabels) =>
            (pc = "loop" /\ delta_max_ = 5)
    /\ (ScenarioCall /\ pc = "returned" /\ delta_max_ = 5) =>
            /\ Size(query_indices) = 2
            /\ (query_indices[0] < 3) # (query_indices[1] < 3)

C8_Witness ==
    /\ ScenarioCall
    /\ pc = "returned"
    /\ delta_max_ = 5
    /\ query_indices[0] >= 3

\* floor(budget * n)
Floor(bud, n) == (bud[1] * n) \div bud[2]

\* C9: after any sequence of query(simulate=False) calls
\* sampled_instances = floor(budget * seen_instances), and the n-th
\* instance of the stream got utility 1 exactly when
\* floor(budget * n) > floor(budget * (n - 1)), else 0.
C9_PeriodicSampling ==
    /\ sampled_instances = Floor(budget, seen_instances)
    /\ Size(stream) = seen_instances
    /\ \A n \in 1..Size(stream) :
          stream[n - 1] =
              IF Floor(budget, n) > Floor(budget, n - 1) THEN 1 ELSE 0

C9_Witness ==
    /\ budget = <<1, 4>>
    /\ seen_instances = 8
    /\ sampled_instances = 2
    /\ last_call.op = "query"
    /\ last_call.n = 3
    /\ stream[3] = 1
    /\ stream[7] = 1

\* C10: query(X_cand, simulate=True) leaves both counters unchanged, and
\* update(X_cand, sampled) right after it, with sampled the utilities of
\* that query, brings the counters to the values of
\* query(X_cand, simulate=False) from the same state.
C10_SimulateThenUpdate ==
    [][/\ last_call'.op = "simulate" =>
            /\ seen_instances' = seen_instances
            /\ sampled_instances' = sampled_instances
       /\ (/\ last_call.op = "simulate"
           /\ last_call'.op = "update"
           /\ last_call'.n = last_call.n
           /\ last_call'.sampled = last_utilities) =>
            /\ seen_instances' = seen_instances + last_call.n
            /\ sampled_instances' =
                   sampled_instances
                   + QueryDecisions(last_call.n, seen_instances,
                                    sampled_instances,
                                    budget).instances_to_sample]_vars

C10_Witness ==
    /\ last_call.op = "update"
    /\ last_call.prev = "simulate"
    /\ last_call.sampled = last_utilities
    /\ last_call.n = 3
    /\ SumArr(last_call.sampled) = 2
    /\ sampled_instances = 3

\* pool points with no point of a different pseudo-label at distance
\* strictly less than delta
PurePoints(delta) ==
    {i \in DOMAIN X :
        \A j \in DOMAIN X : y_cluster[j] # y_cluster[i] =>
                                Dist(X[i], X[j]) >= delta}

\* purity(delta) >= alpha
PurityAtLeastAlpha(delta) ==
    Cardinality(PurePoints(delta)) * alpha[2] >= alpha[1] * Size(X)

\* length of the longest prefix of deltas whose radii all have
\* purity >= alpha
PrefixLen ==
    CHOOSE n \in 0..Len(deltas) :
        /\ \A i \in 1..n : PurityAtLeastAlpha(deltas[i])
        /\ n < Len(deltas) => ~PurityAtLeastAlpha(deltas[n + 1])

\* the calibration of the first call on a fresh instance has just run
JustCalibrated ==
    /\ strategy = "ProbCover"
    /\ call = "first"
    /\ Len(deltas) >= 2
    /\ b = 0
    /\ pc \in {"loop", "raised"}

\* C11: when the calibration of a fresh instance with two or more ascending
\* radii finds a non-empty prefix of radii with purity >= alpha, delta_max_
\* is the last radius of the longest such prefix: the radius before the
\* first one with purity < alpha, or the largest radius when none fails.
C11_LongestPurePrefix ==
    (JustCalibrated /\ PrefixLen >= 1) =>
        /\ pc = "loop"
        /\ delta_max_ = deltas[PrefixLen]

C11_Witness ==
    /\ JustCalibrated
    /\ pc = "loop"
    /\ deltas = <<1, 2, 3>>
    /\ PrefixLen = 2
    /\ delta_max_ = 2
    /\ \E i \in DOMAIN X : \E j \in DOMAIN X :
          y_cluster[i] # y_cluster[j] /\ Dist(X[i], X[j]) = 2

\* out-degree of pool position i in the current graph
OutDegree(i) == Cardinality({e \in edges : e[1] = i})

\* unlabeled pool positions not selected in a round earlier than r
RemainingCandidates(r) == Unlabeled(y) \ SelectedBefore(r)

\* the last round run by the selection loop
LastRound == b - 1

\* the state part of C12, after a round of the loop
RoundThinnedAndMaximal ==
    (strategy = "ProbCover" /\ pc \in {"loop", "returned"} /\ b >= 1) =>
        /\ \A j \in DOMAIN X :
              (\E i \in Labeled(y) \cup SelectedBefore(LastRound) :
                    Dist(X[i], X[j]) <= delta_max_)
              => ~(\E e \in edges : e[2] = j)
        /\ query_indices[LastRound] \in RemainingCandidates(LastRound)
        /\ \A c \in RemainingCandidates(LastRound) :
              OutDegree(query_indices[LastRound]) >= OutDegree(c)
        /\ edges \subseteq Graph(X, delta_max_)

\* C12: after every round of ProbCover's selection loop, every point within
\* distance <= delta_max_ of a labeled or previously selected point has no
\* incoming edge, the selected index is a remaining candidate (unlabeled,
\* not selected earlier) whose out-degree in the thinned graph is maximal
\* among the remaining candidates, and the edge set holds only edges of the
\* constructed graph and never grows during the loop.
C12_ThinThenSelectMax ==
    /\ []RoundThinnedAndMaximal
    /\ [][(strategy = "ProbCover" /\ pc = "loop") => edges' \subseteq edges]_vars

C12_Witness ==
    /\ strategy = "ProbCover"
    /\ pc = "loop"
    /\ b = 2
    /\ batch_size = 3
    /\ edges # {}
    /\ edges # Graph(X, delta_max_)
    /\ \E c \in RemainingCandidates(1) :
          OutDegree(c) < OutDegree(query_indices[1])

\* pool index of position p of X_for_cluster = (X_cand, X[selected_samples])
PoolIndex(p) ==
    IF p < Size(mapping) THEN mapping[p]
    ELSE SortedArr(Labeled(y))[p - Size(mapping)]

\* pool indices of the members of the cluster chosen in the last round
ChosenMembers ==
    {PoolIndex(p) : p \in {q \in DOMAIN cluster_labels :
                              cluster_labels[q] = cluster_id}}

\* typicality of member m: the inverse of the mean distance from X[m] to
\* its k nearest other members, k clamped to the cluster size - 1; a
\* single member scores 1
MemberTypicality(m) ==
    IF Cardinality(ChosenMembers) = 1 THEN Num(1)
    ELSE LET kc == Min(Cardinality(ChosenMembers) - 1, k)
         IN <<kc, SumSmallest(X, X[m], ChosenMembers \ {m}, kc)>>

\* C13: after every round of TypiClust.query the index selected in that
\* round is a member of the cluster chosen in that round and no member of
\* that cluster has a higher typicality, computed from the members' own
\* feature vectors.
C13_MostTypicalMember ==
    (strategy = "TypiClust" /\ pc \in {"loop", "returned"} /\ b >= 1) =>
        /\ query_indices[b - 1] \in ChosenMembers
        /\ \A m \in ChosenMembers :
              ~Greater(MemberTypicality(m),
                       MemberTypicality(query_indices[b - 1]))

\* C14: when the calibration of the first call on a fresh instance with two
\* or more radii has run, delta_max_ is one of the listed radii and the
\* call goes on to build the graph instead of raising.
C14_RadiusAssigned ==
    JustCalibrated =>
        /\ pc = "loop"
        /\ \E i \in 1..Len(deltas) : delta_max_ = deltas[i]

====
